---- MODULE Spec2Model ----
(***************************************************************************)
(* A model of the parser combinator library in src/src/lib.rs.             *)
(*                                                                         *)
(* A string is a sequence of one-character strings (ASCII text: one byte   *)
(* per character, so String::len counts characters).  A value of           *)
(* Option<(Vec<String>, State)> is None or Some(frags, state).  A parse    *)
(* call is evaluated by an explicit call stack: one frame per active call  *)
(* of Parse::parse, holding the locals of that call.                       *)
(***************************************************************************)
EXTENDS Integers, Sequences, FiniteSets, TLC

VARIABLES
    tree,             \* the root matcher the caller built
    input,            \* the State the caller passes to tree.parse
    stack,            \* the active calls of Parse::parse, innermost last
    ret,              \* <<>> or <<r>>: the value the callee just returned
    calls,            \* history: the completed calls (node, state, result)
    pc,               \* "build" | "build_err" | "run" | "done" | "panic"
    overflow_checks   \* the build profile: TRUE panics on usize overflow

vars == <<tree, input, stack, ret, calls, pc, overflow_checks>>

----------------------------------------------------------------------------
(* Bounds of the model. *)

MaxLen == 3        \* longest input text
MaxLit == 2        \* longest literal
MaxMin == 2        \* largest minimum repeat count
MaxPat == 4        \* longest class pattern handed to Char::new
WordBits == 4      \* width of usize in the model

Alphabet == {"a", "b"}
PatAlphabet == {"a", "b", "[", "]", "*", "|"}

Modulus == 2 ^ WordBits
MaxReps == MaxLen + 1      \* cap on the results vector of a Rep loop

Strs(n) == UNION {[1..k -> Alphabet] : k \in 0..n}
Texts == Strs(MaxLen)

----------------------------------------------------------------------------
(* Values. *)

State(s, offset) == [s |-> s, offset |-> offset]

None == [some |-> FALSE]
Some(frags, state) == [some |-> TRUE, frags |-> frags, state |-> state]

Ok(v) == [panic |-> FALSE, val |-> v]
Panicked == [panic |-> TRUE]

RECURSIVE Concat(_)
Concat(vs) == IF vs = <<>> THEN <<>> ELSE Head(vs) \o Concat(Tail(vs))

\* a + b on usize: panics with overflow checks, wraps without
AddUsize(a, b, checks) ==
    IF a + b >= Modulus
    THEN IF checks THEN Panicked ELSE Ok((a + b) % Modulus)
    ELSE Ok(a + b)

\* s[from..to] on a String: panics unless from <= to <= len
Slice(s, from, to) ==
    IF from <= to /\ to <= Len(s) THEN Ok(SubSeq(s, from + 1, to)) ELSE Panicked

\* peek with the bound test off by one
peekShort(self, n, checks) ==
    IF self.offset + n >= Len(self.s)
    THEN Ok(<<>>)
    ELSE Slice(self.s, self.offset, self.offset + n)

peek(self, n, checks) ==
    LET end == AddUsize(self.offset, n, checks)
    IN  IF end.panic THEN Panicked
        ELSE IF end.val > Len(self.s) THEN Ok(<<>>)
        ELSE Slice(self.s, self.offset, end.val)

\* read that keeps the offset
readStay(self, n, checks) == Ok(State(self.s, self.offset))

read(self, n, checks) ==
    LET end == AddUsize(self.offset, n, checks)
    IN  IF end.panic THEN Panicked ELSE Ok(State(self.s, end.val))

----------------------------------------------------------------------------
(* The regex crate, as far as Char uses it: patterns over PatAlphabet      *)
(* (literals, bracket classes with nesting, '*' and '|'), and is_match.    *)
(* A compiled regex is its alternatives, each a sequence of items          *)
(* [set, star].                                                            *)

RegexErr == [ok |-> FALSE]

\* the inside of a bracket class from position i; first: nothing read yet
RECURSIVE ParseSetClass(_, _, _, _)
ParseSetClass(p, i, union, first) ==
    IF i > Len(p) THEN RegexErr                                 \* unclosed class
    ELSE IF p[i] = "]"
         THEN IF first
              THEN ParseSetClass(p, i + 1, union \cup {"]"}, FALSE)  \* literal ]
              ELSE [ok |-> TRUE, set |-> union, next |-> i + 1]
    ELSE IF p[i] = "["
         THEN LET r == ParseSetClass(p, i + 1, {}, TRUE)              \* nested class
              IN  IF ~r.ok THEN RegexErr
                  ELSE ParseSetClass(p, r.next, union \cup r.set, FALSE)
    ELSE ParseSetClass(p, i + 1, union \cup {p[i]}, FALSE)

RECURSIVE ParseRegex(_, _, _, _)
ParseRegex(p, i, alts, cur) ==
    IF i > Len(p) THEN [ok |-> TRUE, alts |-> Append(alts, cur)]
    ELSE IF p[i] = "|" THEN ParseRegex(p, i + 1, Append(alts, cur), <<>>)
    ELSE IF p[i] = "*"
         THEN IF cur = <<>> THEN RegexErr                       \* nothing to repeat
              ELSE ParseRegex(p, i + 1, alts,
                              [cur EXCEPT ![Len(cur)].star = TRUE])
    ELSE IF p[i] = "["
         THEN LET r == ParseSetClass(p, i + 1, {}, TRUE)
              IN  IF ~r.ok THEN RegexErr
                  ELSE ParseRegex(p, r.next, alts,
                                  Append(cur, [set |-> r.set, star |-> FALSE]))
    ELSE ParseRegex(p, i + 1, alts, Append(cur, [set |-> {p[i]}, star |-> FALSE]))

RegexNew(p) ==
    LET r == ParseRegex(p, 1, <<>>, <<>>)
    IN  IF r.ok THEN [ok |-> TRUE, re |-> [pattern |-> p, alts |-> r.alts]]
        ELSE RegexErr

\* items[k..] match w[j..] exactly
RECURSIVE MatchesFrom(_, _, _, _)
MatchesFrom(items, k, w, j) ==
    IF k > Len(items) THEN j > Len(w)
    ELSE \/ items[k].star /\ MatchesFrom(items, k + 1, w, j)
         \/ /\ j <= Len(w)
            /\ w[j] \in items[k].set
            /\ MatchesFrom(items, IF items[k].star THEN k ELSE k + 1, w, j + 1)

\* Regex::is_match: an unanchored search
is_match(re, w) ==
    \E a \in 1..(Len(w) + 1) : \E b \in (a - 1)..Len(w) :
        \E x \in DOMAIN re.alts : MatchesFrom(re.alts[x], 1, SubSeq(w, a, b), 1)

----------------------------------------------------------------------------
(* Matchers. *)

NewLit(lit) == [kind |-> "Lit", lit |-> lit]

CharNew(re) ==
    LET r == RegexNew(<<"[">> \o re \o <<"]">>)
    IN  IF r.ok THEN [ok |-> TRUE, val |-> [kind |-> "Char", re |-> r.re]]
        ELSE [ok |-> FALSE]

NewSeq(seq) == [kind |-> "Seq", seq |-> seq]
NewRep(parse, min) == [kind |-> "Rep", parse |-> parse, min |-> min]
NewAlt(choices) == [kind |-> "Alt", choices |-> choices]

----------------------------------------------------------------------------
(* The matcher trees and cursors a caller may build. *)

SeqsOf(S, n) == UNION {[1..k -> S] : k \in 0..n}

Lits == {NewLit(l) : l \in Strs(MaxLit)}
ClassPatterns == {<<"a">>, <<"b">>, <<"a", "b">>}
Chars == {CharNew(p).val : p \in ClassPatterns}
Leaves == Lits \cup Chars

CoreLeaves == {NewLit(<<>>), NewLit(<<"a">>), CharNew(<<"b">>).val}

\* composite children: empty, consuming and non-consuming ones of each kind
Mid ==
    LET e == NewLit(<<>>)
        a == NewLit(<<"a">>)
        b == CharNew(<<"b">>).val
    IN  {NewSeq(<<>>), NewSeq(<<a>>), NewSeq(<<a, b>>), NewSeq(<<e, a>>),
         NewAlt(<<>>), NewAlt(<<a, b>>), NewAlt(<<a, e>>), NewAlt(<<e, a>>),
         NewRep(a, 0), NewRep(a, 1), NewRep(b, 0), NewRep(b, 1), NewRep(e, 1)}

\* child lists of length <= 2 with a core leaf among two children
Lists ==
    {<<>>} \cup {<<l>> : l \in Leaves}
    \cup {<<l, c>> : l \in Leaves, c \in CoreLeaves}
    \cup {<<c, l>> : c \in CoreLeaves, l \in Leaves}

Trees ==
    Leaves
    \cup {NewSeq(q) : q \in Lists}
    \cup {NewSeq(q) : q \in [1..3 -> CoreLeaves]}
    \cup {NewAlt(q) : q \in Lists}
    \cup {NewRep(c, m) : c \in Leaves, m \in 0..MaxMin}
    \cup {NewRep(x, m) : x \in Mid, m \in 0..1}
    \cup {NewSeq(<<NewRep(c, m), c>>) : c \in Leaves, m \in 0..MaxMin}
    \cup {NewSeq(<<NewRep(x, m), x>>) : x \in Mid, m \in 0..1}
    \cup {NewSeq(<<x, NewLit(<<"a">>)>>) : x \in Mid}
    \cup {NewAlt(<<x, NewLit(<<"a">>)>>) : x \in Mid}

\* the cursors in bounds
Cursors == {State(s, o) : s \in Texts, o \in 0..MaxLen} 

InBounds(st) == st.offset <= Len(st.s)

----------------------------------------------------------------------------
(* One frame per active call of parse: the matcher, the &State argument,   *)
(* and the locals current, results and the iterator position i.            *)

Frame(node, state) ==
    [node |-> node, state |-> state, current |-> state, results |-> <<>>, i |-> 1]

Top == stack[Len(stack)]
Running(kind) == pc = "run" /\ stack # <<>> /\ Top.node.kind = kind

SetTop(f) == [stack EXCEPT ![Len(stack)] = f]

\* the children a call is through with: the results of a Rep, the children
\* before position i of a Seq or an Alt
Applied(f) == IF f.node.kind = "Rep" THEN Len(f.results) ELSE f.i - 1

\* parse(&child, &st): enter the callee
Call(child, st) ==
    /\ stack' = Append(stack, Frame(child, st))
    /\ ret' = <<>>
    /\ UNCHANGED <<tree, input, calls, pc, overflow_checks>>

\* return r from the innermost call
Return(r) ==
    /\ stack' = SubSeq(stack, 1, Len(stack) - 1)
    /\ ret' = <<r>>
    /\ calls' = calls \cup {[node |-> Top.node, state |-> Top.state,
                             ret |-> r, n |-> Applied(Top)]}
    /\ pc' = IF Len(stack) = 1 THEN "done" ELSE "run"
    /\ UNCHANGED <<tree, input, overflow_checks>>

Panic ==
    /\ pc' = "panic"
    /\ UNCHANGED <<tree, input, stack, ret, calls, overflow_checks>>

----------------------------------------------------------------------------
(* impl Parse for Lit *)

LitResult(lit, state, checks) ==
    LET peeked == peek(state, Len(lit), checks)
    IN  IF peeked.panic THEN Panicked
        ELSE IF peeked.val = lit
             THEN LET next == read(state, Len(lit), checks)
                  IN  IF next.panic THEN Panicked
                      ELSE Ok(Some(<<peeked.val>>, next.val))
             ELSE Ok(None)

LitParse ==
    /\ Running("Lit")
    /\ LET r == LitResult(Top.node.lit, Top.state, overflow_checks)
       IN  IF r.panic THEN Panic ELSE Return(r.val)

(* impl Parse for Char *)

CharResult(re, state, checks) ==
    LET peeked == peek(state, 1, checks)
    IN  IF peeked.panic THEN Panicked
        ELSE IF is_match(re, peeked.val)
             THEN LET next == read(state, 1, checks)
                  IN  IF next.panic THEN Panicked
                      ELSE Ok(Some(<<peeked.val>>, next.val))
             ELSE Ok(None)

CharParse ==
    /\ Running("Char")
    /\ LET r == CharResult(Top.node.re, Top.state, overflow_checks)
       IN  IF r.panic THEN Panic ELSE Return(r.val)

(* impl Parse for Seq *)

\* SeqCall handing every child the original cursor
SeqCallFromStart ==
    /\ Running("Seq")
    /\ ret = <<>>
    /\ Top.i <= Len(Top.node.seq)
    /\ Call(Top.node.seq[Top.i], Top.state)

SeqCall ==
    /\ Running("Seq")
    /\ ret = <<>>
    /\ Top.i <= Len(Top.node.seq)
    /\ Call(Top.node.seq[Top.i], Top.current)

\* SeqChildSome dropping the child's fragments
SeqChildSomeDrops ==
    /\ Running("Seq")
    /\ ret # <<>> /\ ret[1].some
    /\ stack' = SetTop([Top EXCEPT !.current = ret[1].state, !.i = @ + 1])
    /\ ret' = <<>>
    /\ UNCHANGED <<tree, input, calls, pc, overflow_checks>>

SeqChildSome ==
    /\ Running("Seq")
    /\ ret # <<>> /\ ret[1].some
    /\ stack' = SetTop([Top EXCEPT !.results = Append(@, ret[1].frags),
                                   !.current = ret[1].state,
                                   !.i = @ + 1])
    /\ ret' = <<>>
    /\ UNCHANGED <<tree, input, calls, pc, overflow_checks>>

SeqChildNone ==
    /\ Running("Seq")
    /\ ret # <<>> /\ ~ret[1].some
    /\ Return(None)

SeqReturn ==
    /\ Running("Seq")
    /\ ret = <<>>
    /\ Top.i > Len(Top.node.seq)
    /\ Return(Some(Concat(Top.results), Top.current))

(* impl Parse for Rep *)

RepCall ==
    /\ Running("Rep")
    /\ ret = <<>>
    /\ Call(Top.node.parse, Top.current)

\* RepChildSome that never advances the cursor
RepChildSomeKeepsCursor ==
    /\ Running("Rep")
    /\ ret # <<>> /\ ret[1].some
    /\ Len(Top.results) < MaxReps
    /\ stack' = SetTop([Top EXCEPT !.results = Append(@, ret[1].frags)])
    /\ ret' = <<>>
    /\ UNCHANGED <<tree, input, calls, pc, overflow_checks>>

\* RepChildSome with a guard that leaves the loop when nothing was consumed
RepChildSomeGuarded ==
    /\ Running("Rep")
    /\ ret # <<>> /\ ret[1].some
    /\ Len(Top.results) < MaxReps
    /\ IF ret[1].state = Top.current
       THEN IF Len(Top.results) >= Top.node.min
            THEN Return(Some(Concat(Top.results), Top.current))
            ELSE Return(None)
       ELSE /\ stack' = SetTop([Top EXCEPT !.results = Append(@, ret[1].frags),
                                           !.current = ret[1].state])
            /\ ret' = <<>>
            /\ UNCHANGED <<tree, input, calls, pc, overflow_checks>>

RepChildSome ==
    /\ Running("Rep")
    /\ ret # <<>> /\ ret[1].some
    /\ Len(Top.results) < MaxReps      \* the model's cap on the growing Vec
    /\ stack' = SetTop([Top EXCEPT !.results = Append(@, ret[1].frags),
                                   !.current = ret[1].state])
    /\ ret' = <<>>
    /\ UNCHANGED <<tree, input, calls, pc, overflow_checks>>

\* RepChildNone asking for more than min repetitions
RepChildNoneStrict ==
    /\ Running("Rep")
    /\ ret # <<>> /\ ~ret[1].some
    /\ IF Len(Top.results) > Top.node.min
       THEN Return(Some(Concat(Top.results), Top.current))
       ELSE Return(None)

RepChildNone ==
    /\ Running("Rep")
    /\ ret # <<>> /\ ~ret[1].some
    /\ IF Len(Top.results) >= Top.node.min
       THEN Return(Some(Concat(Top.results), Top.current))
       ELSE Return(None)

(* impl Parse for Alt *)

AltCall ==
    /\ Running("Alt")
    /\ ret = <<>>
    /\ Top.i <= Len(Top.node.choices)
    /\ Call(Top.node.choices[Top.i], Top.state)

AltChildSome ==
    /\ Running("Alt")
    /\ ret # <<>> /\ ret[1].some
    /\ Return(ret[1])

\* AltChildNone giving up at the first failing child
AltChildNoneFails ==
    /\ Running("Alt")
    /\ ret # <<>> /\ ~ret[1].some
    /\ Return(None)

AltChildNone ==
    /\ Running("Alt")
    /\ ret # <<>> /\ ~ret[1].some
    /\ stack' = SetTop([Top EXCEPT !.i = @ + 1])
    /\ ret' = <<>>
    /\ UNCHANGED <<tree, input, calls, pc, overflow_checks>>

AltReturn ==
    /\ Running("Alt")
    /\ ret = <<>>
    /\ Top.i > Len(Top.node.choices)
    /\ Return(None)

----------------------------------------------------------------------------
(* The caller: a tree and a cursor in bounds, then tree.parse(&input). *)

Init ==
    /\ tree \in Trees
    /\ input \in {c \in Cursors : InBounds(c)}
    /\ stack = <<Frame(tree, input)>>
    /\ ret = <<>>
    /\ calls = {}
    /\ pc = "run"
    /\ overflow_checks = TRUE

Next ==
    \/ LitParse
    \/ CharParse
    \/ SeqCall
    \/ SeqChildSome
    \/ SeqChildNone
    \/ SeqReturn
    \/ RepCall
    \/ RepChildSome
    \/ RepChildNone
    \/ AltCall
    \/ AltChildSome
    \/ AltChildNone
    \/ AltReturn

Spec == Init /\ [][Next]_vars

----------------------------------------------------------------------------
(* A leaf matcher applied to any cursor a caller can pass to State::new,   *)
(* under either build profile.                                             *)

AnyCursors == {State(s, o) : s \in Texts, o \in 0..(Modulus - 1)}

InitPeek ==
    /\ tree \in Leaves
    /\ input \in AnyCursors
    /\ stack = <<Frame(tree, input)>>
    /\ ret = <<>>
    /\ calls = {}
    /\ pc = "run"
    /\ overflow_checks \in BOOLEAN

NextPeek ==
    \/ LitParse
    \/ CharParse

SpecPeek == InitPeek /\ [][NextPeek]_vars

----------------------------------------------------------------------------
(* Char::new on any pattern, then parse on a cursor at, before or just     *)
(* past the end of the text.                                               *)

Patterns == UNION {[1..k -> PatAlphabet] : k \in 0..MaxPat}
NoTree == [kind |-> "unbuilt"]

InitChar ==
    /\ tree = NoTree
    /\ input \in {State(s, o) : s \in Texts, o \in 0..(MaxLen + 1)}
    /\ stack = <<>>
    /\ ret = <<>>
    /\ calls = {}
    /\ pc = "build"
    /\ overflow_checks = TRUE

CharBuild ==
    /\ pc = "build"
    /\ \E p \in Patterns :
         LET r == CharNew(p)
         IN  IF r.ok
             THEN /\ tree' = r.val
                  /\ stack' = <<Frame(r.val, input)>>
                  /\ pc' = "run"
             ELSE /\ pc' = "build_err"
                  /\ UNCHANGED <<tree, stack>>
    /\ UNCHANGED <<input, ret, calls, overflow_checks>>

NextChar ==
    \/ CharBuild
    \/ CharParse

SpecChar == InitChar /\ [][NextChar]_vars

----------------------------------------------------------------------------
(* The whole call under the scheduling of a synchronous program: a step    *)
(* that can be taken is taken.                                             *)

FairSpec == Spec /\ WF_vars(Next)

----------------------------------------------------------------------------
(* Reading the history of completed calls. *)

Has(node, st) == \E r \in calls : r.node = node /\ r.state = st
Rec(node, st) == CHOOSE r \in calls : r.node = node /\ r.state = st
Missing == [some |-> "missing"]

Consumed(r) == r.ret.some /\ r.ret.state.offset > r.state.offset

\* every completed success of matcher c consumed at least one character
Consumes(c) == \A r \in calls : (r.node = c /\ r.ret.some) => Consumed(r)

\* the characters of text at offset .. offset + n - 1 are w
TextAt(st, w) ==
    /\ st.offset + Len(w) <= Len(st.s)
    /\ \A j \in 1..Len(w) : st.s[st.offset + j] = w[j]

----------------------------------------------------------------------------
\* C1: Lit(lit).parse succeeds iff the length(lit) characters of the text at
\* the cursor equal lit; then it returns [lit] and the cursor advanced by
\* length(lit); otherwise None.  An empty literal succeeds in place, and a
\* literal longer than the remaining input fails.
C1_LitExact ==
    \A r \in calls : r.node.kind = "Lit" =>
        r.ret = IF TextAt(r.state, r.node.lit)
                THEN Some(<<r.node.lit>>,
                          State(r.state.s, r.state.offset + Len(r.node.lit)))
                ELSE None

C1_Witness ==
    /\ \E r \in calls : /\ r.node.kind = "Lit" /\ Len(r.node.lit) = 2
                        /\ r.state.offset = 1 /\ r.ret.some
    /\ \E r \in calls : /\ r.node = NewLit(<<>>) /\ r.ret.some
                        /\ r.state.offset = Len(r.state.s)

\* C2: every class matcher Char::new accepts succeeds only on a cursor with
\* a character left, returning that one character and the cursor advanced
\* by 1; it never returns an empty fragment or a cursor past the end.
C2_CharOneCharacter ==
    \A r \in calls : (r.node.kind = "Char" /\ r.ret.some) =>
        /\ r.state.offset < Len(r.state.s)
        /\ r.ret.frags = <<<<r.state.s[r.state.offset + 1]>>>>
        /\ r.ret.state = State(r.state.s, r.state.offset + 1)
        /\ r.ret.state.offset <= Len(r.state.s)

\* the result of folding the logged results of kids[i..] from cursor s
RECURSIVE SeqExpected(_, _, _, _)
SeqExpected(kids, i, s, acc) ==
    IF i > Len(kids) THEN [ret |-> Some(acc, s), n |-> Len(kids)]
    ELSE IF ~Has(kids[i], s) THEN [ret |-> Missing, n |-> i - 1]
    ELSE LET c == Rec(kids[i], s).ret
         IN  IF ~c.some THEN [ret |-> None, n |-> i - 1]
             ELSE SeqExpected(kids, i + 1, c.state, acc \o c.frags)

\* C3: Seq threads the cursor through its children in order, returns None as
\* soon as a child does (no later child is applied), and otherwise the
\* concatenated fragments with the last cursor; an empty Seq succeeds in place.
C3_SeqAllOrNothing ==
    \A r \in calls : r.node.kind = "Seq" =>
        LET e == SeqExpected(r.node.seq, 1, r.state, <<>>)
        IN  /\ r.ret = e.ret
            /\ r.n = e.n
            /\ r.node.seq = <<>> => r.ret = Some(<<>>, r.state)

C3_Witness ==
    /\ \E r \in calls : /\ r.node.kind = "Seq" /\ Len(r.node.seq) = 3
                        /\ r.ret.some /\ Len(r.ret.frags) = 3
                        /\ r.ret.state.offset = r.state.offset + 2
    /\ pc = "done"

\* the logged successes of c in a row from cursor s, until it fails
RECURSIVE RepExpected(_, _, _, _)
RepExpected(c, s, k, acc) ==
    IF ~Has(c, s) THEN [k |-> k, frags |-> acc, state |-> Missing]
    ELSE LET x == Rec(c, s).ret
         IN  IF ~x.some THEN [k |-> k, frags |-> acc, state |-> s]
             ELSE RepExpected(c, x.state, k + 1, acc \o x.frags)

\* C4: with a child that consumes on success, Rep applies it k times until it
\* fails and returns Some(all k fragment lists, the cursor after the k-th)
\* iff k >= min, else None.
C4_RepMinimum ==
    \A r \in calls : (r.node.kind = "Rep" /\ Consumes(r.node.parse)) =>
        LET e == RepExpected(r.node.parse, r.state, 0, <<>>)
        IN  /\ r.n = e.k
            /\ r.ret = IF e.k >= r.node.min THEN Some(e.frags, e.state) ELSE None
            /\ (e.k = 0 /\ r.ret.some) => r.ret = Some(<<>>, r.state)
            /\ r.node.min = 0 => r.ret.some

C4_Witness ==
    /\ \E r \in calls : /\ r.node.kind = "Rep" /\ r.node.min = 2
                        /\ r.n = 3 /\ r.ret.some
                        /\ r.ret.state.offset = Len(r.state.s)
    /\ pc = "done"

\* the lowest index of a child logged to succeed on s, all before it failing
FirstSome(kids, s) ==
    IF \E j \in DOMAIN kids : Has(kids[j], s) /\ Rec(kids[j], s).ret.some
    THEN CHOOSE j \in DOMAIN kids :
            /\ Has(kids[j], s) /\ Rec(kids[j], s).ret.some
            /\ \A h \in 1..(j - 1) : Has(kids[h], s) /\ ~Rec(kids[h], s).ret.some
    ELSE 0

\* C5: Alt applies its children in order to the original cursor and returns
\* the result of the first that succeeds, consulting none after it; it
\* returns None iff every child does.
C5_AltFirstMatch ==
    \A r \in calls : r.node.kind = "Alt" =>
        LET kids == r.node.choices
            j == FirstSome(kids, r.state)
        IN  IF r.ret.some
            THEN /\ j >= 1
                 /\ r.ret = Rec(kids[j], r.state).ret
                 /\ r.n = j - 1
            ELSE /\ \A h \in DOMAIN kids :
                        Has(kids[h], r.state) /\ ~Rec(kids[h], r.state).ret.some
                 /\ r.n = Len(kids)

\* the first of two matching literals wins although the second is longer
C5_Witness ==
    /\ tree = NewAlt(<<NewLit(<<"a">>), NewLit(<<"a", "b">>)>>)
    /\ input = State(<<"a", "b">>, 0)
    /\ pc = "done"
    /\ ret = <<Some(<<<<"a">>>>, State(<<"a", "b">>, 1))>>

\* C6: a Lit or Char matcher on a cursor with any offset of the machine word
\* never faults: it returns None or Some, and Some only when the characters
\* at the offset are there.
C6_PeekNeverFaults ==
    /\ pc # "panic"
    /\ \A r \in calls : r.node.kind = "Lit" =>
          (r.ret.some <=> TextAt(r.state, r.node.lit))

\* some active Rep has a child that succeeds at its cursor without consuming
Stalled ==
    \E k \in DOMAIN stack :
        /\ stack[k].node.kind = "Rep"
        /\ \E r \in calls : /\ r.node = stack[k].node.parse
                            /\ r.state = stack[k].current
                            /\ r.ret.some
                            /\ r.ret.state = r.state

\* C8: once the child of a Rep has succeeded at the Rep's current cursor
\* without consuming, the Rep never returns: it stays in its loop.
C8_DegenerateRepLoops == [][Stalled => Stalled']_vars

C8_Witness ==
    \E k \in DOMAIN stack :
        /\ stack[k].node.kind = "Rep"
        /\ Len(stack[k].results) >= 2
        /\ stack[k].current = stack[k].state
        /\ Stalled

\* no active Rep holds more results than characters were left to it
RepBounded ==
    \A k \in DOMAIN stack :
        stack[k].node.kind = "Rep" =>
            Len(stack[k].results) <= Len(stack[k].state.s) - stack[k].state.offset

\* C7: a parse whose Rep children consume on every success terminates, and a
\* Rep collects at most length(text) - offset results.
C7_Termination ==
    /\ [](~Stalled => RepBounded)
    /\ <>(pc = "done" \/ Stalled)

C7_Witness ==
    /\ pc = "done"
    /\ tree.kind = "Rep" /\ tree.parse.kind = "Seq"
    /\ \E r \in calls : r.node = tree /\ r.n = 2

\* C9: Rep gives nothing back and Seq does not re-enter it: with a child c
\* that consumes on success, Seq([Rep(c, min), c]) returns None.
C9_NoBacktracking ==
    \A r \in calls :
        ( /\ r.node.kind = "Seq"
          /\ Len(r.node.seq) = 2
          /\ r.node.seq[1].kind = "Rep"
          /\ r.node.seq[1].parse = r.node.seq[2]
          /\ Consumes(r.node.seq[2]) ) => r.ret = None

C9_Witness ==
    /\ tree = NewSeq(<<NewRep(NewLit(<<"a">>), 0), NewLit(<<"a">>)>>)
    /\ input = State(<<"a", "a">>, 0)
    /\ pc = "done"
    /\ ret = <<None>>

\* C10: a success keeps the text, ends between the start and the end of the
\* text, and its fragments concatenate to exactly the text consumed; the
\* cursor a call was given is unchanged while it runs and when it returns.
C10_Consumption ==
    /\ \A r \in calls : r.ret.some =>
          /\ r.ret.state.s = r.state.s
          /\ r.state.offset <= r.ret.state.offset
          /\ r.ret.state.offset <= Len(r.state.s)
          /\ Concat(r.ret.frags) =
                SubSeq(r.state.s, r.state.offset + 1, r.ret.state.offset)
    /\ stack # <<>> => stack[1].state = input
    /\ pc = "done" => \E r \in calls : r.node = tree /\ r.state = input /\ <<r.ret>> = ret

C10_Witness ==
    /\ pc = "done"
    /\ tree.kind = "Seq"
    /\ ret # <<>> /\ ret[1].some
    /\ Len(ret[1].frags) = 3
    /\ ret[1].state.offset = 3

====
